---- MODULE Spec2Model ----
(***************************************************************************)
(* Model of packages/f2elint/src/actions/scan.ts: one invocation of the    *)
(* async scan(options) function.  The main flow of control is a sequence   *)
(* of synchronous segments separated by the awaits of the lint passes; the *)
(* un-awaited promise callbacks of the pre-fix prettier pass and the       *)
(* fire-and-forget report write run only while the main flow is suspended  *)
(* at an await or after it has ended.                                      *)
(*                                                                         *)
(* Paths and extensions are sequences of one-character strings, so that    *)
(* path.extname and the extension filter are computed, not looked up.      *)
(***************************************************************************)
EXTENDS Integers, Sequences, FiniteSets, TLC

VARIABLES
    options,        \* ScanOptions: fix, quiet, outputReport, files (hasFiles/files)
    manifest,       \* state of <cwd>/package.json: "missing" | "ok" | "malformed"
    configFile,     \* state and content of <cwd>/f2elint.config.js
    disk,           \* content of every existing project file
    pc,             \* position of the main flow of scan()
    ignoreFiles,    \* state and content of <cwd>/.eslintignore and <cwd>/.stylelintignore
    config,         \* const config (line 41)
    eslintIgnore,   \* const eslintIgnore (line 43)
    stylelintIgnore,\* const stylelintIgnore (line 44)
    results,        \* let results (line 45)
    runErrors,      \* const runErrors (line 42)
    pending,        \* un-awaited prettier.resolveConfig(filePath) promises (line 55)
    reports,        \* const reports (line 66), while the eslint pass awaits outputFixes
    calls,          \* history: the stages run, in order, each with the file set it was handed
    threw,          \* history: passes whose try block threw
    produced,       \* history: what formatResults returned, per pass
    writes,         \* history: the writes made to project files, and by which stage
    unhandled,      \* history: files whose pre-fix promise callback threw
    reportWrite,    \* the fs.outputFile call of line 122
    ret             \* the value the invocation resolved with

vars == <<options, manifest, configFile, ignoreFiles, disk, pc, config,
          eslintIgnore, stylelintIgnore, results, runErrors, pending, reports, calls, threw, produced, writes, unhandled,
          reportWrite, ret>>

(***************************************************************************)
(* Bounds of the model.                                                    *)
(***************************************************************************)
MaxFiles == 2       \* longest explicit options.files list

(***************************************************************************)
(* Paths.                                                                  *)
(***************************************************************************)
F_a_ts   == <<"s","r","c","/","a",".","t","s">>
F_b_css  == <<"s","r","c","/","b",".","c","s","s">>
F_c_md   == <<"c",".","m","d">>

F_gone   == <<"g","o","n","e",".","t","s">>

Include  == <<"s","r","c">>                     \* options.include

\* The files that exist under cwd.
DiskFiles == {F_a_ts, F_b_css, F_c_md}
\* The names a caller may put into options.files (F_gone does not exist).
Names     == DiskFiles \cup {F_gone}

\* ../utils/constants
ESLINT_FILE_EXT        == << <<".","j","s">>, <<".","j","s","x">>, <<".","t","s">>,
                             <<".","t","s","x">>, <<".","v","u","e">> >>
STYLELINT_FILE_EXT     == << <<".","c","s","s">>, <<".","s","c","s","s">>,
                             <<".","l","e","s","s">>, <<".","a","c","s","s">> >>
MARKDOWN_LINT_FILE_EXT == << <<".","m","d">> >>

Range(s) == { s[i] : i \in DOMAIN s }

\* Index of the last occurrence of c in s, 0 when there is none.
LastIndexOf(s, c) ==
    LET I == { i \in DOMAIN s : s[i] = c }
    IN  IF I = {} THEN 0 ELSE CHOOSE i \in I : \A j \in I : j <= i

\* path.basename
basename(p) == SubSeq(p, LastIndexOf(p, "/") + 1, Len(p))

\* path.extname: from the last "." of the last path portion to the end; empty
\* when there is no "." or when the only "." is the portion's first character.
extname(p) ==
    LET b == basename(p)
        i == LastIndexOf(b, ".")
    IN  IF i <= 1 THEN <<>> ELSE SubSeq(b, i, Len(b))

\* t.replace(/^\./, '')
StripDot(t) == IF Len(t) > 0 /\ t[1] = "." THEN SubSeq(t, 2, Len(t)) ELSE t

\* An ignore / glob pattern matches a path when it is that path, or when it is
\* "<dir>/**" and the path lies under <dir>.
IsPrefix(a, b) == Len(a) <= Len(b) /\ SubSeq(b, 1, Len(a)) = a

Matches(pat, p) ==
    LET n == Len(pat)
    IN  IF n >= 3 /\ SubSeq(pat, n - 2, n) = <<"/","*","*">>
        THEN IsPrefix(SubSeq(pat, 1, n - 2), p)
        ELSE pat = p

Ignored(p, ignore) == \E i \in DOMAIN ignore : Matches(ignore[i], p)

NODE_MODULES == <<"n","o","d","e","_","m","o","d","u","l","e","s","/","*","*">>

\* The existing files in the order glob.sync returns them (sorted).
DiskOrder == <<F_c_md, F_a_ts, F_b_css>>

\* glob.sync of "<root>/**/*.{<exts>}" with an ignore list.
GlobSync(root, exts, ignore) ==
    SelectSeq(DiskOrder,
              LAMBDA p : /\ (root = <<>> \/ IsPrefix(root \o <<"/">>, p))
                         /\ StripDot(extname(p)) \in Range(exts)
                         /\ ~Ignored(p, ignore))

(***************************************************************************)
(* The helpers of scan().                                                  *)
(***************************************************************************)

\* Mutant of getLintFiles: the explicit list is handed on unfiltered.
getLintFilesUnfiltered(opts, ext) ==
    IF opts.hasFiles
    THEN [kind |-> "list", list |-> opts.files, root |-> <<>>, exts |-> <<>>]
    ELSE [kind |-> "pattern", list |-> <<>>,
          root |-> Include, exts |-> [i \in DOMAIN ext |-> StripDot(ext[i])]]

\* getLintFiles (lines 19-24): the explicit list filtered by extension, or the
\* glob pattern <cwd>/<include>/**/*.{<exts without dot>}, kept as its parts.
getLintFiles(opts, ext) ==
    IF opts.hasFiles
    THEN [kind |-> "list",
          list |-> SelectSeq(opts.files, LAMBDA name : extname(name) \in Range(ext)),
          root |-> <<>>, exts |-> <<>>]
    ELSE [kind |-> "pattern", list |-> <<>>,
          root |-> Include, exts |-> [i \in DOMAIN ext |-> StripDot(ext[i])]]

\* A ToolsConfig toggle is absent, true or false.
Toggle == {"absent", "true", "false"}
EmptyConfig == [enablePrettier |-> "absent", enableStylelint |-> "absent",
                enableMarkdownlint |-> "absent"]

\* readConfigFile (lines 25-28): {} for a missing file, else what require() loads.
\* require() throws on malformed content.
\* Mutant of RequireThrows: no existsSync test, require of a missing file throws.
RequireThrowsOnMissing(file) == file # "ok"

RequireThrows(file) == file = "malformed"
readConfigFile(file, value) == IF file = "missing" THEN EmptyConfig ELSE value

\* content.split(/\r?\n/)
RECURSIVE SplitLines(_, _)
SplitLines(s, cur) ==
    IF s = <<>> THEN <<cur>>
    ELSE IF Head(s) = "\n" THEN <<cur>> \o SplitLines(Tail(s), <<>>)
    ELSE IF Head(s) = "\r" /\ Len(s) >= 2 /\ s[2] = "\n"
         THEN <<cur>> \o SplitLines(Tail(Tail(s)), <<>>)
    ELSE SplitLines(Tail(s), Append(cur, Head(s)))

WhiteSpace == {" ", "\t", "\r", "\n"}

\* String.prototype.trim
RECURSIVE TrimStart(_)
TrimStart(s) == IF s # <<>> /\ Head(s) \in WhiteSpace THEN TrimStart(Tail(s)) ELSE s
RECURSIVE TrimEnd(_)
TrimEnd(s) ==
    IF s # <<>> /\ s[Len(s)] \in WhiteSpace THEN TrimEnd(SubSeq(s, 1, Len(s) - 1)) ELSE s
trim(s) == TrimEnd(TrimStart(s))

\* Mutant of readIgnore: the comment and empty lines are filtered before trimming.
readIgnoreFilterFirst(file) ==
    IF file.exists
    THEN LET lines == SplitLines(file.content, <<>>)
             kept  == SelectSeq(lines, LAMBDA str : str # <<>> /\ str[1] # "#")
         IN  [i \in DOMAIN kept |-> trim(kept[i])]
    ELSE <<>>

\* readIgnore (lines 29-39)
readIgnore(file) ==
    IF file.exists
    THEN LET lines   == SplitLines(file.content, <<>>)
             trimmed == [i \in DOMAIN lines |-> trim(lines[i])]
         IN  SelectSeq(trimmed, LAMBDA str : str # <<>> /\ str[1] # "#")
    ELSE <<>>

(***************************************************************************)
(* File contents.  A project file's text is known up to whether prettier   *)
(* has formatted it and whether the script linter's fixes are applied.     *)
(***************************************************************************)
Original == [pretty |-> FALSE, fixed |-> FALSE]

\* prettier.format(text, options)
Format(text) == [text EXCEPT !.pretty = TRUE]

\* The fixed source ESLint puts into a report's output when fix is on.
FixedOutput(text) == [text EXCEPT !.fixed = TRUE]

(***************************************************************************)
(* The inputs of one invocation.                                           *)
(***************************************************************************)
\* Explicit file lists: the sequences without repetition of at most MaxFiles names.
FileLists ==
    UNION { { l \in [1..n -> Names] : \A i, j \in 1..n : i # j => l[i] # l[j] }
            : n \in 0..MaxFiles }

OptionsSet ==
    { [fix |-> f, quiet |-> q, outputReport |-> o, hasFiles |-> FALSE, files |-> <<>>]
        : f \in BOOLEAN, q \in BOOLEAN, o \in BOOLEAN }
    \cup
    { [fix |-> f, quiet |-> q, outputReport |-> o, hasFiles |-> TRUE, files |-> l]
        : f \in BOOLEAN, q \in BOOLEAN, o \in BOOLEAN, l \in FileLists }

\* The manifest and the tools config on disk: both present (any toggles), both
\* missing, or one of them malformed.
ConfigFiles ==
    { [status |-> "ok", value |-> [enablePrettier |-> p, enableStylelint |-> s,
                                   enableMarkdownlint |-> m]]
        : p \in Toggle, s \in Toggle, m \in Toggle }

LoadCases ==
    { <<"ok", c>> : c \in ConfigFiles }
    \cup { <<"missing", [status |-> "missing", value |-> EmptyConfig]>>,
           <<"malformed", [status |-> "missing", value |-> EmptyConfig]>>,
           <<"ok", [status |-> "malformed", value |-> EmptyConfig]>> }

NoFile == [exists |-> FALSE, content |-> <<>>]
\* "# x\r\n src/a.ts \n\n"
IgnoreA == [exists |-> TRUE,
            content |-> <<"#"," ","x","\r","\n"," ">> \o F_a_ts \o <<" ","\n","\n">>]

IgnoreCases == { [eslint |-> NoFile, stylelint |-> NoFile],
                 [eslint |-> IgnoreA, stylelint |-> NoFile] }

Passes == {"eslint", "stylelint", "markdownlint", "prettier"}

NoReport == [issued |-> 0, content |-> <<>>, status |-> "none"]
NoReturn == [results |-> <<>>, errorCount |-> 0, warningCount |-> 0, runErrors |-> <<>>]

Init ==
    /\ options \in OptionsSet
    /\ \E lc \in LoadCases : manifest = lc[1] /\ configFile = lc[2]
    /\ ignoreFiles \in IgnoreCases
    /\ disk = [p \in DiskFiles |-> Original]
    /\ pc = "load"
    /\ config = EmptyConfig
    /\ eslintIgnore = <<>>
    /\ stylelintIgnore = <<>>
    /\ results = <<>>
    /\ runErrors = <<>>
    /\ pending = {}
    /\ reports = <<>>
    /\ calls = <<>>
    /\ threw = {}
    /\ produced = [p \in Passes |-> <<>>]
    /\ writes = {}
    /\ unhandled = {}
    /\ reportWrite = NoReport
    /\ ret = NoReturn

\* The ignore files of the second specification: every text of up to MaxContent
\* characters over IgnoreAlphabet, or no file; .eslintignore and .stylelintignore
\* hold the same text, so the text is read twice.
MaxContent == 5
IgnoreAlphabet == {"a", "b", "#", " ", "\n", "\r"}
IgnoreContents == UNION { [1..n -> IgnoreAlphabet] : n \in 0..MaxContent }
IgnoreFilesRead ==
    {NoFile} \cup { [exists |-> TRUE, content |-> c] : c \in IgnoreContents }

InitIgnore ==
    /\ options = [fix |-> FALSE, quiet |-> FALSE, outputReport |-> FALSE,
                  hasFiles |-> FALSE, files |-> <<>>]
    /\ manifest = "ok"
    /\ configFile = [status |-> "missing", value |-> EmptyConfig]
    /\ \E f \in IgnoreFilesRead : ignoreFiles = [eslint |-> f, stylelint |-> f]
    /\ disk = [p \in DiskFiles |-> Original]
    /\ pc = "load"
    /\ config = EmptyConfig
    /\ eslintIgnore = <<>>
    /\ stylelintIgnore = <<>>
    /\ results = <<>>
    /\ runErrors = <<>>
    /\ pending = {}
    /\ reports = <<>>
    /\ calls = <<>>
    /\ threw = {}
    /\ produced = [p \in Passes |-> <<>>]
    /\ writes = {}
    /\ unhandled = {}
    /\ reportWrite = NoReport
    /\ ret = NoReturn

\* What the history variables record is left alone by most steps.
History == <<calls, threw, produced, writes, unhandled>>
Inputs  == <<options, manifest, configFile, ignoreFiles>>
Loaded  == <<config, eslintIgnore, stylelintIgnore>>

(***************************************************************************)
(* Lines 40-45: load the manifest, the tools config and the ignore lists.  *)
(* A throwing require() rejects the invocation.                            *)
(***************************************************************************)
Load ==
    /\ pc = "load"
    /\ IF RequireThrows(manifest) \/ RequireThrows(configFile.status)
       THEN /\ pc' = "rejected"
            /\ UNCHANGED Loaded
       ELSE /\ config' = readConfigFile(configFile.status, configFile.value)
            /\ eslintIgnore' = readIgnore(ignoreFiles.eslint)
            /\ stylelintIgnore' = readIgnore(ignoreFiles.stylelint)
            /\ pc' = "prefix"
    /\ UNCHANGED <<Inputs, disk, results, runErrors, pending, reports, History,
                   reportWrite, ret>>

(***************************************************************************)
(* Lines 47-60: the pre-fix prettier pass.  The forEach is synchronous:    *)
(* each file is read and its resolveConfig promise created; the format and *)
(* the write happen later, in the promise's callback.  readFileSync throws *)
(* for a file that does not exist, which ends the forEach and, there being *)
(* no try around it, rejects the invocation.                               *)
(***************************************************************************)
\* line 48
PrePrettierEnabled(opts, cfg) == opts.fix /\ cfg.enablePrettier # "false"

\* lines 49-52
PreFixFiles(opts, ignore) ==
    LET files == getLintFiles(opts, ESLINT_FILE_EXT \o STYLELINT_FILE_EXT)
    IN  IF files.kind = "pattern"
        THEN GlobSync(files.root, files.exts, ignore)
        ELSE files.list

\* Number of files the forEach reads before readFileSync throws.
ReadableUpTo(files) ==
    LET Bad == { i \in DOMAIN files : files[i] \notin DiskFiles }
    IN  IF Bad = {} THEN Len(files) ELSE (CHOOSE i \in Bad : \A j \in Bad : i <= j) - 1

\* Mutant of PreFixReads: an unreadable file is skipped and the forEach goes on.
PreFixReadsSkipping(files) == { i \in DOMAIN files : files[i] \in DiskFiles }

\* lines 53-54: the positions of the file set whose text the forEach reads.
PreFixReads(files) == 1..ReadableUpTo(files)

PreFixPass ==
    /\ pc = "prefix"
    /\ IF PrePrettierEnabled(options, config)
       THEN LET files == PreFixFiles(options, eslintIgnore \o stylelintIgnore)
                n     == ReadableUpTo(files)
            IN  /\ pending' = { [idx |-> i, filePath |-> files[i], text |-> disk[files[i]]]
                                  : i \in PreFixReads(files) }
                /\ calls' = Append(calls, [pass |-> "prefix",
                                           files |-> [kind |-> "list", list |-> files,
                                                      root |-> <<>>, exts |-> <<>>]])
                /\ pc' = IF n < Len(files) THEN "rejected" ELSE "eslint"
       ELSE /\ pc' = "eslint"
            /\ UNCHANGED <<pending, calls>>
    /\ UNCHANGED <<Inputs, Loaded, disk, results, runErrors, reports, threw, produced,
                   writes, unhandled, reportWrite, ret>>

\* Mutant of Suspended: the callbacks are drained before the eslint pass starts.
SuspendedAlsoBeforeEslint ==
    {"eslint", "eslint_await", "eslint_fix_await", "stylelint_await",
     "markdown_await", "done", "rejected"}

\* The positions at which the main flow is suspended at an await, or has ended:
\* only there do promise callbacks and I/O completions run.
Suspended == {"eslint_await", "eslint_fix_await", "stylelint_await",
              "markdown_await", "done", "rejected"}

\* Lines 55-58: the callback of one resolveConfig promise.  resolveConfig may
\* reject and prettier.format may throw (an unhandled rejection, nothing
\* written); otherwise the formatted text read at line 54 is written.
PrettierCallback(p) ==
    /\ pc \in Suspended
    /\ p \in pending
    /\ pending' = pending \ {p}
    /\ \/ /\ disk' = [disk EXCEPT ![p.filePath] = Format(p.text)]
          /\ writes' = writes \cup {[path |-> p.filePath, by |-> "prefix"]}
          /\ UNCHANGED unhandled
       \/ /\ unhandled' = unhandled \cup {p.idx}
          /\ UNCHANGED <<disk, writes>>
    /\ UNCHANGED <<Inputs, Loaded, pc, results, runErrors, reports, calls, threw,
                   produced, reportWrite, ret>>

(***************************************************************************)
(* The engines (../lints/eslint, ../lints/stylelint, ../lints/markdownlint)*)
(* are outside scan.ts: a call either throws or returns one raw report per *)
(* file it linted.  What an engine finds in a file depends on the file's   *)
(* text alone: fixing removes one error, formatting removes the warnings.  *)
(***************************************************************************)
Findings(path, text) ==
    LET base == IF path = F_a_ts THEN <<2, 1>>
                ELSE IF path = F_b_css THEN <<1, 2>>
                ELSE <<0, 1>>
    IN  [errorCount   |-> IF text.fixed /\ base[1] > 0 THEN base[1] - 1 ELSE base[1],
         warningCount |-> IF text.pretty THEN 0 ELSE base[2]]

\* The files an engine lints for the file set it was handed.
EngineFiles(arg) ==
    IF arg.kind = "list"
    THEN SelectSeq(arg.list, LAMBDA p : p \in DiskFiles)
    ELSE GlobSync(arg.root, arg.exts, <<>>)

\* The raw reports of a run that reads the files now; with fix, the findings
\* are those left in the fixed output.
RawReports(files, fix) ==
    [i \in DOMAIN files |->
        LET output == IF fix THEN FixedOutput(disk[files[i]]) ELSE disk[files[i]]
        IN  [filePath     |-> files[i],
             errorCount   |-> Findings(files[i], output).errorCount,
             warningCount |-> Findings(files[i], output).warningCount,
             output       |-> output]]

\* formatResults(raw, quiet): one ScanResult per raw report; quiet drops the
\* findings of warning severity.  "by" records the pass that produced it.
formatResults(raw, quiet, pass) ==
    [i \in DOMAIN raw |->
        [filePath |-> raw[i].filePath,
         errorCount |-> raw[i].errorCount,
         warningCount |-> IF quiet THEN 0 ELSE raw[i].warningCount,
         by |-> pass]]

\* Mutant of Concat: results = ... in place of results = results.concat(...).
ConcatOverwrites(rs, more) == more

\* Mutant of Concat: the new results are put in front of the earlier ones.
ConcatPrepends(rs, more) == more \o rs

\* results.concat(...)
Concat(rs, more) == rs \o more

\* Mutant of Catch: the error is swallowed.
CatchSwallows(errs, pass) == errs

\* catch (e) { runErrors.push(e) } (lines 69-71, 82-84, 98-100, 114-116)
Catch(errs, pass) == Append(errs, pass)

\* A pass's try block threw: its catch runs and the flow goes on at `next`.
Throw(pass, next) ==
    /\ runErrors' = Catch(runErrors, pass)
    /\ threw' = threw \cup {pass}
    /\ pc' = next
    /\ UNCHANGED <<results, produced>>

\* A pass's try block ran to its end with the raw reports `raw`.
Succeed(pass, raw, next) ==
    /\ results' = Concat(results, formatResults(raw, options.quiet, pass))
    /\ produced' = [produced EXCEPT ![pass] = formatResults(raw, options.quiet, pass)]
    /\ pc' = next
    /\ UNCHANGED <<runErrors, threw>>

\* The file set of the latest call of a pass.
LastCall(pass) ==
    LET I == { i \in DOMAIN calls : calls[i].pass = pass }
    IN  calls[CHOOSE i \in I : \A j \in I : j <= i]

(***************************************************************************)
(* Lines 62-71: the eslint pass.                                           *)
(***************************************************************************)
\* lines 64-66, up to the await
EslintCall ==
    /\ pc = "eslint"
    /\ calls' = Append(calls, [pass |-> "eslint",
                               files |-> getLintFiles(options, ESLINT_FILE_EXT)])
    /\ pc' = "eslint_await"
    /\ UNCHANGED <<Inputs, Loaded, disk, results, runErrors, pending, reports, threw,
                   produced, writes, unhandled, reportWrite, ret>>

\* line 67: fix && (await ESLint.outputFixes(reports))
AwaitsOutputFixes(opts) == opts.fix

\* line 66 settles: new ESLint / lintFiles threw, or the reports are in.
EslintSettle ==
    /\ pc = "eslint_await"
    /\ \/ /\ Throw("eslint", "stylelint")
          /\ UNCHANGED reports
       \/ LET raw == RawReports(EngineFiles(LastCall("eslint").files), options.fix)
          IN
            IF AwaitsOutputFixes(options)
            THEN /\ reports' = raw
                 /\ pc' = "eslint_fix_await"
                 /\ UNCHANGED <<results, produced, runErrors, threw>>
            ELSE /\ Succeed("eslint", raw, "stylelint")
                 /\ UNCHANGED reports
    /\ UNCHANGED <<Inputs, Loaded, disk, pending, calls, writes, unhandled,
                   reportWrite, ret>>

\* line 67 settles: outputFixes threw, or every report's output is written.
EslintFixSettle ==
    /\ pc = "eslint_fix_await"
    /\ \/ /\ Throw("eslint", "stylelint")
          /\ UNCHANGED <<disk, writes>>
       \/ /\ disk' = [p \in DiskFiles |->
                         IF \E i \in DOMAIN reports : reports[i].filePath = p
                         THEN (reports[CHOOSE i \in DOMAIN reports :
                                          reports[i].filePath = p]).output
                         ELSE disk[p]]
          /\ writes' = writes \cup { [path |-> reports[i].filePath, by |-> "eslint"]
                                        : i \in DOMAIN reports }
          /\ Succeed("eslint", reports, "stylelint")
    /\ reports' = <<>>
    /\ UNCHANGED <<Inputs, Loaded, pending, calls, unhandled, reportWrite, ret>>

(***************************************************************************)
(* Lines 73-85: the stylelint pass.                                        *)
(***************************************************************************)
\* Mutant of StylelintEnabled: the guard tests the markdownlint toggle.
StylelintGuardMixedUp(cfg) == cfg.enableMarkdownlint # "false"

\* line 74
StylelintEnabled(cfg) == cfg.enableStylelint # "false"

StylelintCall ==
    /\ pc = "stylelint"
    /\ IF StylelintEnabled(config)
       THEN /\ calls' = Append(calls, [pass |-> "stylelint",
                                       files |-> getLintFiles(options, STYLELINT_FILE_EXT)])
            /\ pc' = "stylelint_await"
       ELSE /\ pc' = "markdown"
            /\ UNCHANGED calls
    /\ UNCHANGED <<Inputs, Loaded, disk, results, runErrors, pending, reports, threw,
                   produced, writes, unhandled, reportWrite, ret>>

StylelintSettle ==
    /\ pc = "stylelint_await"
    /\ \/ Throw("stylelint", "markdown")
       \/ Succeed("stylelint",
                  RawReports(EngineFiles(LastCall("stylelint").files), FALSE), "markdown")
    /\ UNCHANGED <<Inputs, Loaded, disk, pending, reports, calls, writes, unhandled,
                   reportWrite, ret>>

(***************************************************************************)
(* Lines 87-101: the markdownlint pass.                                    *)
(***************************************************************************)
\* line 88
MarkdownlintEnabled(cfg) == cfg.enableMarkdownlint # "false"

\* lines 90-92
MarkdownFiles(opts) ==
    IF opts.hasFiles
    THEN getLintFiles(opts, MARKDOWN_LINT_FILE_EXT)
    ELSE [kind |-> "list",
          list |-> GlobSync(<<>>, << <<"m","d">> >>, <<NODE_MODULES>>),
          root |-> <<>>, exts |-> <<>>]

MarkdownCall ==
    /\ pc = "markdown"
    /\ IF MarkdownlintEnabled(config)
       THEN /\ calls' = Append(calls, [pass |-> "markdownlint",
                                       files |-> MarkdownFiles(options)])
            /\ pc' = "markdown_await"
       ELSE /\ pc' = "postfix"
            /\ UNCHANGED calls
    /\ UNCHANGED <<Inputs, Loaded, disk, results, runErrors, pending, reports, threw,
                   produced, writes, unhandled, reportWrite, ret>>

MarkdownSettle ==
    /\ pc = "markdown_await"
    /\ \/ Throw("markdownlint", "postfix")
       \/ Succeed("markdownlint",
                  RawReports(EngineFiles(LastCall("markdownlint").files), FALSE), "postfix")
    /\ UNCHANGED <<Inputs, Loaded, disk, pending, reports, calls, writes, unhandled,
                   reportWrite, ret>>

(***************************************************************************)
(* Lines 103-117: the post-fix prettier run, a synchronous child process.  *)
(***************************************************************************)
\* Mutant of PostPrettierEnabled: the guard does not test fix.
PostPrettierIgnoresFix(opts, cfg) == cfg.enablePrettier = "true"

\* line 104
PostPrettierEnabled(opts, cfg) == cfg.enablePrettier = "true" /\ opts.fix

\* lines 106-112
PostFixFiles(opts) ==
    LET ext == ESLINT_FILE_EXT \o STYLELINT_FILE_EXT
    IN  IF opts.hasFiles
        THEN getLintFiles(opts, ext)
        ELSE [kind |-> "list",
              list |-> GlobSync(<<>>, [i \in DOMAIN ext |-> StripDot(ext[i])],
                                <<NODE_MODULES>>),
              root |-> <<>>, exts |-> <<>>]

\* prettier -w rewrote the first n of the files it was given.
PrettierWrote(files, n) ==
    /\ disk' = [p \in DiskFiles |->
                  IF \E i \in 1..n : files[i] = p THEN Format(disk[p]) ELSE disk[p]]
    /\ writes' = writes \cup { [path |-> files[i], by |-> "postfix"] : i \in 1..n }

PostFix ==
    /\ pc = "postfix"
    /\ IF PostPrettierEnabled(options, config)
       THEN LET files == EngineFiles(PostFixFiles(options))
            IN  /\ calls' = Append(calls, [pass |-> "prettier",
                                           files |-> PostFixFiles(options)])
                /\ \/ /\ PrettierWrote(files, Len(files))
                      /\ pc' = "report"
                      /\ UNCHANGED <<runErrors, threw>>
                   \/ \E n \in 0..Len(files) :
                         /\ PrettierWrote(files, n)
                         /\ Throw("prettier", "report")
       ELSE /\ pc' = "report"
            /\ UNCHANGED <<calls, disk, writes, runErrors, threw>>
    /\ UNCHANGED <<Inputs, Loaded, results, pending, reports, produced, unhandled,
                   reportWrite, ret>>

(***************************************************************************)
(* Lines 119-130: issue the report write and return the ScanReport.        *)
(***************************************************************************)
\* results.reduce((count, { errorCount }) => count + errorCount, 0)
RECURSIVE reduceErrorCount(_, _)
reduceErrorCount(rs, count) ==
    IF rs = <<>> THEN count
    ELSE reduceErrorCount(Tail(rs), count + Head(rs).errorCount)

\* results.reduce((count, { warningCount }) => count + warningCount, 0)
RECURSIVE reduceWarningCount(_, _)
reduceWarningCount(rs, count) ==
    IF rs = <<>> THEN count
    ELSE reduceWarningCount(Tail(rs), count + Head(rs).warningCount)

\* Mutant of ScanReport: errorCount reduced over the warning counts.
ScanReportMixedUp(rs, errs) ==
    [results |-> rs,
     errorCount |-> reduceWarningCount(rs, 0),
     warningCount |-> reduceWarningCount(rs, 0),
     runErrors |-> errs]

\* lines 125-130
ScanReport(rs, errs) ==
    [results |-> rs,
     errorCount |-> reduceErrorCount(rs, 0),
     warningCount |-> reduceWarningCount(rs, 0),
     runErrors |-> errs]

\* JSON.stringify(results, null, 2): the fields of each ScanResult, in order.
Stringify(rs) ==
    [i \in DOMAIN rs |-> <<rs[i].filePath, rs[i].errorCount, rs[i].warningCount>>]

\* line 120
WritesReport(opts) == opts.outputReport

\* Mutant of ReportContent: only the first ScanResult is serialized.
ReportContentFirstOnly(rs) == IF rs = <<>> THEN <<>> ELSE Stringify(<<Head(rs)>>)

\* line 122: the text handed to fs.outputFile
ReportContent(rs) == Stringify(rs)

Finish ==
    /\ pc = "report"
    /\ IF WritesReport(options)
       THEN reportWrite' = [issued |-> reportWrite.issued + 1,
                            content |-> ReportContent(results),
                            status |-> "pending"]
       ELSE UNCHANGED reportWrite
    /\ ret' = ScanReport(results, runErrors)
    /\ pc' = "done"
    /\ UNCHANGED <<Inputs, Loaded, disk, results, runErrors, pending, reports, History>>

\* The write of line 122 completes or fails; its callback () => {} ignores both.
\* Mutant of ReportCallback: a failed write is pushed onto runErrors.
ReportCallbackPushes(errs, st) == IF st = "failed" THEN Append(errs, "report") ELSE errs

\* line 122: the callback given to fs.outputFile, () => {}, drops the outcome.
ReportCallback(errs, st) == errs

ReportSettle ==
    /\ pc \in Suspended
    /\ reportWrite.status = "pending"
    /\ \E st \in {"written", "failed"} :
          /\ reportWrite' = [reportWrite EXCEPT !.status = st]
          /\ runErrors' = ReportCallback(runErrors, st)
    /\ UNCHANGED <<Inputs, Loaded, disk, pc, results, pending, reports,
                   History, ret>>

Next ==
    \/ Load
    \/ PreFixPass
    \/ \E p \in pending : PrettierCallback(p)
    \/ EslintCall
    \/ EslintSettle
    \/ EslintFixSettle
    \/ StylelintCall
    \/ StylelintSettle
    \/ MarkdownCall
    \/ MarkdownSettle
    \/ PostFix
    \/ Finish
    \/ ReportSettle

Spec == Init /\ [][Next]_vars

\* The second specification: lines 40-44 alone, over the ignore files above.
NextIgnore == Load
SpecIgnore == InitIgnore /\ [][NextIgnore]_vars

(***************************************************************************)
(* Vocabulary of the properties.                                           *)
(***************************************************************************)
LintPasses == {"eslint", "stylelint", "markdownlint"}

\* The stage was run during this invocation.
Called(pass) == \E i \in DOMAIN calls : calls[i].pass = pass

\* The ScanResults of a sequence that a given pass produced.
ResultsBy(rs, pass) == SelectSeq(rs, LAMBDA r : r.by = pass)

\* How often an error of a pass occurs in a runErrors sequence.
ErrorsOf(errs, pass) == Cardinality({ i \in DOMAIN errs : errs[i] = pass })

\* The configuration asks for the pass: the script linter always, the style and
\* markdown linters unless switched off, the post-fix formatter when switched
\* on together with fix.
Wanted(pass) ==
    CASE pass = "eslint"       -> TRUE
      [] pass = "stylelint"    -> config.enableStylelint # "false"
      [] pass = "markdownlint" -> config.enableMarkdownlint # "false"
      [] pass = "prettier"     -> config.enablePrettier = "true" /\ options.fix

\* Sum of the first n values of f.
RECURSIVE SumTo(_, _)
SumTo(f, n) == IF n = 0 THEN 0 ELSE SumTo(f, n - 1) + f[n]

(***************************************************************************)
(* C1: partial-failure isolation.  Whichever of the script-lint,           *)
(* style-lint, markdown-lint and post-fix formatter passes throw, every    *)
(* pass the configuration asks for has been run when the ScanReport is     *)
(* returned, and the report holds, for every lint pass that did not throw, *)
(* exactly the ScanResults that pass produced.                             *)
(***************************************************************************)
C1_PartialFailureIsolation ==
    pc = "done" =>
        /\ \A p \in Passes : Wanted(p) => Called(p)
        /\ \A p \in LintPasses :
              Wanted(p) /\ p \notin threw => ResultsBy(ret.results, p) = produced[p]

\* The style linter threw, the linters before and after it reported findings,
\* and the post-fix formatter still ran.
C1_Witness ==
    /\ pc = "done"
    /\ "stylelint" \in threw
    /\ produced["eslint"] # <<>>
    /\ produced["markdownlint"] # <<>>
    /\ ResultsBy(ret.results, "eslint") # <<>>
    /\ Called("prettier")

(***************************************************************************)
(* C2: a pass that throws adds no ScanResult and exactly one runErrors     *)
(* entry; a pass that did not throw adds none.  Hence runErrors is as long *)
(* as the number of passes that threw, also in the returned ScanReport.    *)
(***************************************************************************)
C2_ThrowAddsOneRunError ==
    /\ Len(runErrors) = Cardinality(threw)
    /\ \A p \in Passes :
          /\ ErrorsOf(runErrors, p) = IF p \in threw THEN 1 ELSE 0
          /\ p \in threw => ResultsBy(results, p) = <<>>
    /\ pc = "done" => Len(ret.runErrors) = Cardinality(threw)

\* Two passes threw, another one contributed results, and the report is returned.
C2_Witness ==
    /\ pc = "done"
    /\ Cardinality(threw) = 2
    /\ ret.results # <<>>

(***************************************************************************)
(* C3: in the returned ScanReport errorCount is the sum of the errorCounts *)
(* of its results and warningCount the sum of their warningCounts.         *)
(***************************************************************************)
C3_CountsAreSums ==
    pc = "done" =>
        /\ ret.errorCount =
              SumTo([i \in DOMAIN ret.results |-> ret.results[i].errorCount],
                    Len(ret.results))
        /\ ret.warningCount =
              SumTo([i \in DOMAIN ret.results |-> ret.results[i].warningCount],
                    Len(ret.results))

\* A report over several results whose error and warning totals differ.
C3_Witness ==
    /\ pc = "done"
    /\ Len(ret.results) >= 2
    /\ ret.errorCount >= 2
    /\ ret.warningCount >= 1
    /\ ret.errorCount # ret.warningCount
    /\ threw # {}

(***************************************************************************)
(* C4: the script-lint pass is executed in every invocation: whatever the  *)
(* options and toggles, and also when the manifest and the tools config    *)
(* are absent, the script linter has been invoked when the invocation      *)
(* ends.  (Stated for the invocations whose config loading succeeds.)      *)
(***************************************************************************)
ConfigLoadThrows == RequireThrows(manifest) \/ RequireThrows(configFile.status)

C4_ScriptLintAlwaysRuns ==
    (pc \in {"done", "rejected"} /\ ~ConfigLoadThrows) => Called("eslint")

(***************************************************************************)
(* C5: with enableStylelint set to false the style linter is never         *)
(* invoked: no ScanResult and no run error comes from the style-lint pass. *)
(***************************************************************************)
C5_StylelintOffNeverRuns ==
    (configFile.status = "ok" /\ configFile.value.enableStylelint = "false") =>
        /\ ~Called("stylelint")
        /\ pc # "stylelint_await"
        /\ ResultsBy(results, "stylelint") = <<>>
        /\ ResultsBy(ret.results, "stylelint") = <<>>
        /\ ErrorsOf(runErrors, "stylelint") = 0
        /\ ErrorsOf(ret.runErrors, "stylelint") = 0

\* Style-lint switched off, a style file in the explicit list, and the other
\* passes both reported and threw.
C5_Witness ==
    /\ pc = "done"
    /\ config.enableStylelint = "false"
    /\ options.hasFiles
    /\ F_b_css \in Range(options.files)
    /\ ret.results # <<>>
    /\ ret.runErrors # <<>>

(***************************************************************************)
(* C6: with an explicit file list, the file set handed to each lint pass   *)
(* is exactly the sub-list, in the original order, of the supplied files   *)
(* that end in one of that tool's extensions; no lint pass receives a file *)
(* that ends in an extension of another tool.                              *)
(***************************************************************************)
EndsWith(name, ext) ==
    Len(ext) <= Len(name) /\ SubSeq(name, Len(name) - Len(ext) + 1, Len(name)) = ext

ExtensionsOf(pass) ==
    CASE pass = "eslint"       -> ESLINT_FILE_EXT
      [] pass = "stylelint"    -> STYLELINT_FILE_EXT
      [] pass = "markdownlint" -> MARKDOWN_LINT_FILE_EXT

IsFileOf(name, pass) == \E e \in Range(ExtensionsOf(pass)) : EndsWith(name, e)

C6_ExplicitFilesFilteredPerTool ==
    options.hasFiles =>
        \A i \in DOMAIN calls :
            calls[i].pass \in LintPasses =>
                /\ calls[i].files.kind = "list"
                /\ calls[i].files.list =
                      SelectSeq(options.files, LAMBDA n : IsFileOf(n, calls[i].pass))
                /\ \A n \in Range(calls[i].files.list) :
                      \A q \in LintPasses \ {calls[i].pass} : ~IsFileOf(n, q)

\* A style file listed before a script file: each linter got its own file only.
C6_Witness ==
    /\ pc = "done"
    /\ options.hasFiles
    /\ options.files = <<F_b_css, F_a_ts>>
    /\ \E i \in DOMAIN calls :
          calls[i].pass = "eslint" /\ calls[i].files.list = <<F_a_ts>>
    /\ \E i \in DOMAIN calls :
          calls[i].pass = "stylelint" /\ calls[i].files.list = <<F_b_css>>
    /\ \E i \in DOMAIN calls :
          calls[i].pass = "markdownlint" /\ calls[i].files.list = <<>>

(***************************************************************************)
(* C7: with outputReport set, a report write is issued exactly once, when  *)
(* every pass has finished, and its content is the serialization of the    *)
(* results sequence the ScanReport returns; without outputReport no report *)
(* write is issued.                                                        *)
(***************************************************************************)
C7_ReportWrittenOnce ==
    /\ reportWrite.issued <= 1
    /\ reportWrite.issued = 1 =>
          /\ options.outputReport
          /\ pc = "done"
          /\ reportWrite.content = Stringify(ret.results)
    /\ (pc = "done" /\ options.outputReport) => reportWrite.issued = 1
    /\ ~options.outputReport => reportWrite.issued = 0 /\ reportWrite.status = "none"

\* The report of a run with several results and a thrown pass has been written.
C7_Witness ==
    /\ pc = "done"
    /\ reportWrite.status = "written"
    /\ Len(ret.results) >= 2
    /\ threw # {}

(***************************************************************************)
(* C8: each toggle defaults to true: with a toggle absent, every stage it  *)
(* gates runs as it does when the toggle is true; in particular with fix   *)
(* set and enablePrettier absent both the pre-fix formatting pass and the  *)
(* post-fix formatter invocation run.                                      *)
(***************************************************************************)
C8_AbsentToggleMeansEnabled ==
    pc = "done" =>
        /\ config.enableStylelint \in {"absent", "true"} => Called("stylelint")
        /\ config.enableMarkdownlint \in {"absent", "true"} => Called("markdownlint")
        /\ (options.fix /\ config.enablePrettier \in {"absent", "true"}) =>
              Called("prefix") /\ Called("prettier")

(***************************************************************************)
(* C9: without the fix flag the invocation writes no project file: the     *)
(* pre-fix formatting pass, the script linter's fix output and the         *)
(* post-fix formatter are not performed, whatever the tools config.        *)
(***************************************************************************)
C9_NoFixNoSourceWrite ==
    ~options.fix =>
        /\ writes = {}
        /\ disk = [p \in DiskFiles |-> Original]
        /\ pending = {}
        /\ ~Called("prefix")
        /\ ~Called("prettier")
        /\ pc # "eslint_fix_await"

\* A run without fix, with the formatter switched on, that linted files and
\* wrote its report.
C9_Witness ==
    /\ pc = "done"
    /\ ~options.fix
    /\ config.enablePrettier = "true"
    /\ ret.results # <<>>
    /\ reportWrite.status = "written"

(***************************************************************************)
(* C10: run-level failures never abort the invocation: once the config is  *)
(* loaded, whichever engine call throws, the invocation does not reject,   *)
(* also with fix set and a failure in the pre-fix formatting pass.         *)
(***************************************************************************)
C10_RunFailuresNeverReject == pc = "rejected" => ConfigLoadThrows

(***************************************************************************)
(* C11: in the pre-fix formatting pass a failure while processing one file *)
(* (reading it, resolving its formatter config, reformatting it or writing *)
(* it) aborts the pass: no file that comes later in the resolved file set  *)
(* is rewritten by this pass.                                              *)
(*                                                                         *)
(* As claimed, for a failure of any kind: once the processing of a file    *)
(* has failed, no step rewrites a file that comes later in the file set.   *)
(***************************************************************************)
C11_AnyFailureAbortsPass ==
    [][\A p \in pending :
          (\E i \in unhandled : i < p.idx) => (p \in pending' \/ p.idx \in unhandled')]_vars

\* The first position of a file set that fs.readFileSync cannot read.
FirstUnreadable(files) ==
    CHOOSE i \in DOMAIN files :
        files[i] \notin DiskFiles /\ \A j \in 1..(i - 1) : files[j] \in DiskFiles

\* As amended: a failure to read a file aborts the pass; from that file on, no
\* file of the resolved file set is read, formatted or rewritten by the pass.
C11_ReadFailureAbortsPass ==
    Called("prefix") =>
        LET files == LastCall("prefix").files.list
        IN  (\E i \in DOMAIN files : files[i] \notin DiskFiles) =>
                /\ pc = "rejected"
                /\ \A j \in FirstUnreadable(files)..Len(files) :
                      /\ \A p \in pending : p.idx # j
                      /\ j \notin unhandled
                      /\ [path |-> files[j], by |-> "prefix"] \notin writes

\* The first file of the set could not be read; a readable file follows it.
C11_Witness ==
    /\ pc = "rejected"
    /\ Called("prefix")
    /\ LastCall("prefix").files.list = <<F_gone, F_a_ts>>
    /\ pending = {}
    /\ writes = {}

(***************************************************************************)
(* C12: the pre-fix pass's rewrites are not ordered before the later       *)
(* passes.  No rewrite of the pre-fix pass is applied before the           *)
(* script-lint pass has started (or the invocation has been rejected): the *)
(* callbacks first run while the script linter is awaited, so a rewrite    *)
(* can complete after the linter has read the file, after later passes and *)
(* after the ScanReport was returned.                                      *)
(***************************************************************************)
C12_RewritesOnlyAfterLintStarted ==
    /\ (\E w \in writes : w.by = "prefix") => (Called("eslint") \/ pc = "rejected")
    /\ pc \in {"prefix", "eslint"} => disk = [p \in DiskFiles |-> Original]

\* The ScanReport is returned, the script linter has reported on the text of
\* src/a.ts as it was before formatting, and the pre-fix rewrite of that file
\* is still to come.
C12_Witness ==
    /\ pc = "done"
    /\ \E p \in pending : p.filePath = F_a_ts
    /\ ~disk[F_a_ts].pretty
    /\ \E i \in DOMAIN ret.results :
          /\ ret.results[i].by = "eslint"
          /\ ret.results[i].filePath = F_a_ts
          /\ ret.results[i].warningCount = Findings(F_a_ts, Original).warningCount
    /\ ret.warningCount > 0

(***************************************************************************)
(* C13: no lost update on fix: once the script-lint pass has written its   *)
(* fixes to a file, no pre-fix rewrite computed from the file's pre-lint   *)
(* text is written to it; when all pending writes have completed, every    *)
(* file the linter fixed holds the linter's fixes.                         *)
(***************************************************************************)
C13_NoLostUpdate ==
    (pc = "done" /\ pending = {}) =>
        \A w \in writes : w.by = "eslint" => disk[w.path].fixed

\* The place of a stage in the fixed order of the invocation.
StageRank(pass) ==
    CASE pass = "prefix"       -> 0
      [] pass = "eslint"       -> 1
      [] pass = "stylelint"    -> 2
      [] pass = "markdownlint" -> 3
      [] pass = "prettier"     -> 4

\* The pass whose asynchronous call has been made and has not yet settled.
InFlight ==
    CASE pc \in {"eslint_await", "eslint_fix_await"} -> {"eslint"}
      [] pc = "stylelint_await"                      -> {"stylelint"}
      [] pc = "markdown_await"                       -> {"markdownlint"}
      [] OTHER                                       -> {}

(***************************************************************************)
(* C14: the stages run strictly in sequence, in the order script-lint,     *)
(* style-lint, markdown-lint, post-fix formatter, aggregation: a pass in   *)
(* flight is the latest one started and nothing of it or of a later stage  *)
(* is recorded yet, the passes are started in that order, the results      *)
(* appear in the order script, style, markdown, the runErrors entries      *)
(* appear in pass order, and the report and the return come last.          *)
(***************************************************************************)
C14_StagesInSequence ==
    /\ \A i, j \in DOMAIN calls :
          i < j => StageRank(calls[i].pass) < StageRank(calls[j].pass)
    /\ \A i, j \in DOMAIN results :
          i < j => StageRank(results[i].by) <= StageRank(results[j].by)
    /\ \A i, j \in DOMAIN runErrors :
          i < j => StageRank(runErrors[i]) < StageRank(runErrors[j])
    /\ \A p \in InFlight :
          /\ calls # <<>> /\ calls[Len(calls)].pass = p
          /\ \A i \in DOMAIN results : StageRank(results[i].by) < StageRank(p)
          /\ \A i \in DOMAIN runErrors : StageRank(runErrors[i]) < StageRank(p)
    /\ (reportWrite # NoReport \/ ret # NoReturn) => pc = "done"
    /\ pc = "done" => ret.results = results /\ ret.runErrors = runErrors

\* All five stages have run: the script and markdown passes produced results,
\* the style pass and the post-fix formatter threw, in this order.
C14_Witness ==
    /\ pc = "done"
    /\ ResultsBy(ret.results, "eslint") # <<>>
    /\ ResultsBy(ret.results, "markdownlint") # <<>>
    /\ ret.runErrors = <<"stylelint", "prettier">>
    /\ reportWrite.status = "written"

\* The number of invocations of the post-fix formatter so far.
PrettierCalls == Cardinality({ i \in DOMAIN calls : calls[i].pass = "prettier" })

(***************************************************************************)
(* C15: the post-fix formatter is invoked only if the formatter is         *)
(* explicitly enabled and fix is set, only after the script, style and     *)
(* markdown passes have finished, and at most once; whether it succeeds or *)
(* throws it leaves results unchanged, and a throw adds exactly one        *)
(* runErrors entry.                                                        *)
(***************************************************************************)
C15_PostFixFormatter ==
    [][IF pc = "postfix"
       THEN /\ results' = results
            /\ PrettierCalls' <= 1
            /\ PrettierCalls' = 1 =>
                  /\ config.enablePrettier = "true" /\ options.fix
                  /\ \A p \in LintPasses : Wanted(p) => Called(p)
                  /\ InFlight = {}
                  /\ calls'[Len(calls')].pass = "prettier"
            /\ IF threw' # threw
               THEN /\ threw' = threw \cup {"prettier"}
                    /\ PrettierCalls' = 1
                    /\ runErrors' = Append(runErrors, "prettier")
               ELSE runErrors' = runErrors
       ELSE PrettierCalls' = PrettierCalls]_vars

\* The post-fix formatter has thrown after the lint passes produced results.
C15_Witness ==
    /\ pc = "report"
    /\ PrettierCalls = 1
    /\ "prettier" \in threw
    /\ runErrors = <<"prettier">>
    /\ \A p \in LintPasses : ResultsBy(results, p) # <<>>

(***************************************************************************)
(* C16: a failure of the report write is not surfaced: the ScanReport that *)
(* is returned is the same whether the write is pending, has succeeded or  *)
(* has failed; a failed write adds no runErrors entry and does not reject  *)
(* the invocation.                                                         *)
(***************************************************************************)
C16_ReportWriteFailureNotSurfaced ==
    reportWrite.status \in {"pending", "written", "failed"} =>
        /\ pc = "done"
        /\ ret = ScanReport(results, runErrors)
        /\ ret.runErrors = runErrors
        /\ \A i \in DOMAIN runErrors : runErrors[i] \in Passes
        /\ Len(runErrors) = Cardinality(threw)

\* The report write has failed after a ScanReport with results was returned.
C16_Witness ==
    /\ reportWrite.status = "failed"
    /\ pc = "done"
    /\ ret.results # <<>>
    /\ ret.runErrors = <<>>

(***************************************************************************)
(* C17: the pre-fix pass applies the ignore lists of both linters to its   *)
(* resolved file set: no file that matches a pattern of the script-lint or *)
(* the style-lint ignore list is read or rewritten by this pass, whether   *)
(* the file set came from an explicit file list or from the glob.          *)
(***************************************************************************)
C17_PreFixHonoursIgnoreLists ==
    LET ignore == eslintIgnore \o stylelintIgnore
    IN  /\ \A p \in pending : ~Ignored(p.filePath, ignore)
        /\ \A w \in writes : w.by = "prefix" => ~Ignored(w.path, ignore)

(***************************************************************************)
(* C18: the configuration is loaded before any pass.  A missing manifest   *)
(* or tool-config file yields an empty mapping and the invocation goes on  *)
(* with it; malformed content ends the invocation with a fatal error       *)
(* before any pass runs: no file is rewritten, no linter is invoked and no *)
(* report is written.                                                      *)
(***************************************************************************)
C18_ConfigLoadedBeforeAnyPass ==
    LET malformed == manifest = "malformed" \/ configFile.status = "malformed"
        untouched == /\ calls = <<>> /\ pending = {} /\ writes = {} /\ unhandled = {}
                     /\ disk = [p \in DiskFiles |-> Original]
                     /\ results = <<>> /\ runErrors = <<>>
                     /\ reportWrite = NoReport /\ ret = NoReturn
    IN  /\ pc = "load" => untouched
        /\ malformed => pc \in {"load", "rejected"} /\ untouched
        /\ (~malformed /\ pc # "load") =>
              /\ pc = "rejected" => Called("prefix")
              /\ configFile.status = "missing" => config = EmptyConfig
              /\ configFile.status = "ok" => config = configFile.value

\* A malformed tool-config file has ended an invocation that was to fix files
\* and to write a report.
C18_Witness ==
    /\ pc = "rejected"
    /\ configFile.status = "malformed"
    /\ options.fix /\ options.outputReport
    /\ calls = <<>>
    /\ reportWrite = NoReport

\* The lines of a text, by the places of its line feeds: line k lies between
\* the (k-1)-th and the k-th line feed.
LineFeeds(s) == { i \in DOMAIN s : s[i] = "\n" }
LineCount(s) == Cardinality(LineFeeds(s)) + 1
LineFrom(s, k) ==
    IF k = 1 THEN 1
    ELSE 1 + CHOOSE i \in LineFeeds(s) :
                 Cardinality({ j \in LineFeeds(s) : j <= i }) = k - 1
LineTo(s, k) ==
    IF k = LineCount(s) THEN Len(s)
    ELSE (CHOOSE i \in LineFeeds(s) :
              Cardinality({ j \in LineFeeds(s) : j <= i }) = k) - 1

\* A line without the white space around it: from its first to its last
\* character that is not white space.
Trimmed(s, from, to) ==
    LET ink == { i \in from..to : s[i] \notin WhiteSpace }
    IN  IF ink = {} THEN <<>>
        ELSE SubSeq(s, CHOOSE i \in ink : \A j \in ink : i <= j,
                       CHOOSE i \in ink : \A j \in ink : j <= i)

\* Is l the list of the members of `all` picked by the positions `keep`, in order?
IsSubList(l, all, keep) ==
    /\ Len(l) = Cardinality(keep)
    /\ \A k \in keep : l[Cardinality({ j \in keep : j <= k })] = all[k]

\* Is l the list of the trimmed lines of the text s that are neither empty nor
\* comments, in the order of the text?
IsIgnoreListOf(l, s) ==
    LET all  == [k \in 1..LineCount(s) |-> Trimmed(s, LineFrom(s, k), LineTo(s, k))]
        keep == { k \in DOMAIN all : all[k] # <<>> /\ all[k][1] # "#" }
    IN  IsSubList(l, all, keep)

(***************************************************************************)
(* C19: reading an ignore list is idempotent and order-preserving: the     *)
(* same text read twice gives the same list; the list is exactly the       *)
(* text's lines, trimmed, in the order of the text, without the empty      *)
(* lines and the lines whose trimmed form starts with '#'; a missing file  *)
(* gives the empty list and the reading does not fail.                     *)
(***************************************************************************)
C19_ReadIgnoreExact ==
    /\ pc \in {"load", "prefix"}
    /\ pc = "prefix" =>
          /\ eslintIgnore = stylelintIgnore
          /\ IF ignoreFiles.eslint.exists
             THEN IsIgnoreListOf(eslintIgnore, ignoreFiles.eslint.content)
             ELSE eslintIgnore = <<>>
          /\ \A i \in DOMAIN eslintIgnore :
                /\ eslintIgnore[i] # <<>>
                /\ eslintIgnore[i][1] \notin WhiteSpace \cup {"#"}
                /\ eslintIgnore[i][Len(eslintIgnore[i])] \notin WhiteSpace

\* A text of three lines, the second a comment, was read as its two patterns.
C19_Witness ==
    /\ pc = "prefix"
    /\ ignoreFiles.eslint.content = <<"b", "\n", "#", "\n", "a">>
    /\ eslintIgnore = << <<"b">>, <<"a">> >>
    /\ stylelintIgnore = << <<"b">>, <<"a">> >>

====
